---------------------------- MODULE Spec2Model ----------------------------
(***************************************************************************)
(* DHrectPeriodicBound<t_pow>: an axis-aligned hyper-rectangle in a        *)
(* periodic (toroidal) coordinate space, from                              *)
(* fastlib/tree/dhrectperiodicbound_impl.h.                                *)
(*                                                                         *)
(* Numbers.  The code computes in doubles.  The model computes in integers *)
(* that count half units: the double x is the integer 2*x (G(x) below).    *)
(* Coordinates given to the mutators and period widths are whole numbers,  *)
(* i.e. even integers here, so that every quantity the code derives from   *)
(* them (a midpoint (lo+hi)/2, half a period box/2.0, a fold               *)
(* x - floor(x/box)*box) is again an integer of the model and is computed  *)
(* exactly, as it is in double arithmetic for such small values.  Query    *)
(* points may lie on any half unit.  A squared distance d*d is therefore   *)
(* the integer 4*d*d (Sq below).                                           *)
(***************************************************************************)
EXTENDS Integers, Sequences, FiniteSets, TLC

VARIABLES
  dim_,        \* index_t dim_
  bounds_,     \* DRange *bounds_ : sequence of [lo, hi], one per axis
  box_size__,  \* vec box_size__  : the period of each axis
  pc,          \* "idle": no call in progress; "returned"; "aborted" (a failed DEBUG_ assertion)
  call,        \* the operation last called on the bound, with its arguments
  ret          \* what that call returned, as a sequence of numbers

vars == <<dim_, bounds_, box_size__, pc, call, ret>>

--------------------------------------------------------------------------
(* Bounds of the model *)

\* dimensionalities 1..MaxDim
MaxDim == 2
\* whole-number coordinates 0..MaxCoord on the first axis
MaxCoord == 3
\* whole-number period widths 1..MaxPeriod on the first axis
MaxPeriod == 4
\* whole periods a query point is translated by: -MaxShift..MaxShift
MaxShift == 1

\* template parameter t_pow: 2 for Euclidean distances
t_pow == 2

\* the double x (whole or half) on the model's grid of half units
G(x) == 2 * x
\* the squared distance x (in squared units) on the model's grid
Sq(x) == 4 * x

Dims == 1..MaxDim

--------------------------------------------------------------------------
(* <math.h> and std:: helpers *)

min(a, b) == IF a < b THEN a ELSE b
max(a, b) == IF a > b THEN a ELSE b
fabs(a) == IF a < 0 THEN -a ELSE a

\* floor(x / w) for w # 0: the largest integer k with k <= x/w
floor_div(x, w) == IF w > 0 THEN x \div w ELSE (-x) \div (-w)

RECURSIVE pow(_, _)
pow(v, n) == IF n = 0 THEN 1 ELSE v * pow(v, n - 1)

\* pow(sum, 2.0 / (double) t_pow)
pow_root(sum) == pow(sum, 2 \div t_pow)

\* the fold every distance query applies: x - floor(x / box) * box
Fold(x, box) == x - floor_div(x, box) * box

\* box / 2.0 (box is even on the grid)
Half(box) == box \div 2

\* a C comparison used as a number
B2I(b) == IF b THEN 1 ELSE 0

RECURSIVE SumSeq(_)
SumSeq(s) == IF s = <<>> THEN 0 ELSE Head(s) + SumSeq(Tail(s))

--------------------------------------------------------------------------
(* DRange (fastlib/math/range.h) *)

\* stands for DBL_MAX
DBL_MAX == 1000000

\* DRange::InitEmptySet
EmptyRange == [lo |-> DBL_MAX, hi |-> -DBL_MAX]

\* DRange::Contains(double)
RangeContains(r, d) == r.lo <= d /\ d <= r.hi

\* DRange::operator|=(double)
RangeIncludePoint(r, d) == [lo |-> min(r.lo, d), hi |-> max(r.hi, d)]

\* DRange::operator|=(const DRange&)
RangeIncludeRange(r, o) == [lo |-> min(r.lo, o.lo), hi |-> max(r.hi, o.hi)]

\* DRange::mid: (hi + lo) / 2
mid(r) == (r.hi + r.lo) \div 2

\* DRange::width
width(r) == r.hi - r.lo

\* (box1.get(i) + box2.get(i)) * 0.5
RangeAverage(a, b) == [lo |-> (a.lo + b.lo) \div 2, hi |-> (a.hi + b.hi) \div 2]

IsEmptyRange(r) == r.lo > r.hi

--------------------------------------------------------------------------
(* The const methods, as functions of the bound (b: the array bounds_,     *)
(* box: box_size__) and of the argument.  Each loops over the dim_ = Len(b)*)
(* axes of this bound.                                                     *)

Axes(b) == 1..Len(b)

\* Contains(point): loops over the axes of the point
Contains(b, point) ==
  \A i \in 1..Len(point) : RangeContains(b[i], point[i])

\* CalculateMaxDistanceSq
CalculateMaxDistanceSq(b) ==
  SumSeq([i \in Axes(b) |-> pow(width(b[i]), 2)])

\* CalculateMidpoint(centroid)
CalculateMidpoint(b) == [i \in Axes(b) |-> mid(b[i])]

\* MinDistanceSq(point) without the fold of the point's offset
MinDistancePointAxis_Unfolded(r, box, p) ==
  LET bh == Fold(r.hi - r.lo, box)
      a  == p - r.lo
  IN  IF bh > a THEN min(a - bh, box - a) ELSE 0

\* MinDistanceSq(point), the body of the loop: the value of v
MinDistancePointAxis(r, box, p) ==
  LET bh == Fold(r.hi - r.lo, box)
      a  == Fold(p - r.lo, box)
  IN  IF bh > a THEN min(a - bh, box - a) ELSE 0

\* MinDistanceSq(point)
MinDistanceSqPoint(b, box, point) ==
  pow_root(SumSeq([d \in Axes(b) |->
             pow(MinDistancePointAxis(b[d], box[d], point[d]), t_pow)]))

\* MinDistanceSq(other) with the two gaps of the non-periodic bound only
MinDistanceBoundAxis_NoWrap(r, o, box) ==
  LET v1 == o.lo - r.hi
      v2 == r.lo - o.hi
  IN  (v1 + fabs(v1)) + (v2 + fabs(v2))

\* MinDistanceSq(other), the body of the loop: the value of v
MinDistanceBoundAxis(r, o, box) ==
  LET d1 == B2I(r.hi > r.lo \/ o.hi > o.lo)
              * min(o.lo - r.hi, r.lo - o.hi)
      d2 == B2I(r.hi > r.lo /\ o.hi > o.lo)
              * min(o.lo - r.hi, r.lo - o.hi + box)
      d3 == B2I(r.hi > r.lo /\ o.hi > o.lo)
              * min(o.lo - r.hi + box, r.lo - o.hi)
  IN  (d1 + fabs(d1)) + (d2 + fabs(d2)) + (d3 + fabs(d3))

\* MinDistanceSq(other)
MinDistanceSqBound(b, box, other) ==
  pow_root(SumSeq([d \in Axes(b) |->
             pow(MinDistanceBoundAxis(b[d], other[d], box[d]), t_pow)])) \div 4

\* MaxDistanceSq(point) taking al itself where the code reflects it
MaxDistancePointAxis_Unreflected(r, box, p) ==
  LET v  == Half(box)
      ah == Fold(r.hi - p, box)
      al == Fold(r.lo - p, box)
  IN  fabs(IF ah < v THEN ah
           ELSE IF al > v THEN al ELSE v)

\* MaxDistanceSq(point), the body of the loop: the value of fabs(v)
MaxDistancePointAxis(r, box, p) ==
  LET v  == Half(box)
      ah == Fold(r.hi - p, box)
      al == Fold(r.lo - p, box)
  IN  fabs(IF ah < v THEN ah
           ELSE IF al > v THEN (2 * v) - al ELSE v)

\* MaxDistanceSq(point)
MaxDistanceSqPoint(b, box, point) ==
  pow_root(SumSeq([d \in Axes(b) |->
             pow(MaxDistancePointAxis(b[d], box[d], point[d]), t_pow)]))

\* MaxDistanceSq(other), the body of the loop: the value of v
MaxDistanceBoundAxis(r, o, box) ==
  LET v  == Half(box)
      dh == Fold(r.hi - o.lo, box)
      dl == Fold(o.hi - r.lo, box)
  IN  fabs(max(min(dh, v), min(dl, v)))

\* MaxDistanceSq(other)
MaxDistanceSqBound(b, box, other) ==
  pow_root(SumSeq([d \in Axes(b) |->
             pow(MaxDistanceBoundAxis(b[d], other[d], box[d]), t_pow)]))

\* MaxDelta(other, box_width, dim)
MaxDelta(b, other, box_width, dim) ==
  LET temp1 == Fold(other[dim].hi - b[dim].lo, box_width)
      temp2 == Fold(other[dim].lo - b[dim].hi, box_width)
  IN  IF 2 * temp1 > box_width
      THEN IF 2 * temp2 > box_width
           THEN (other[dim].hi - b[dim].lo)
                  - floor_div(temp2 + box_width, box_width) * box_width
           ELSE Half(box_width)
      ELSE temp1

\* MinDelta(other, box_width, dim)
MinDelta(b, other, box_width, dim) ==
  LET temp1 == Fold(other[dim].hi - b[dim].lo, box_width)
      temp2 == Fold(other[dim].hi - b[dim].hi, box_width)
  IN  IF 2 * temp1 > box_width
      THEN IF 2 * temp2 > box_width
           THEN temp2 - box_width
           ELSE -Half(box_width)
      ELSE temp2

\* RangeDistanceSq(other), the body of the loop: <<v_lo, v_hi>>
RangeDistanceBoundAxis(r, o) ==
  LET v1 == o.lo - r.hi
      v2 == r.lo - o.hi
  IN  IF v1 >= v2
      THEN <<IF v1 > 0 THEN v1 ELSE 0, -v2>>
      ELSE <<IF v2 > 0 THEN v2 ELSE 0, -v1>>

\* RangeDistanceSq(other): <<lo, hi>> of the DRange returned
RangeDistanceSqBound(b, other) ==
  << pow_root(SumSeq([d \in Axes(b) |->
        pow(RangeDistanceBoundAxis(b[d], other[d])[1], t_pow)])),
     pow_root(SumSeq([d \in Axes(b) |->
        pow(RangeDistanceBoundAxis(b[d], other[d])[2], t_pow)])) >>

\* RangeDistanceSq(point), the body of the loop: <<v_lo, v_hi>>
RangeDistancePointAxis(r, p) ==
  LET v1 == r.lo - p
      v2 == p - r.hi
  IN  IF v1 >= 0 THEN <<v1, -v2>> ELSE <<v2, -v1>>

\* RangeDistanceSq(point): <<lo, hi>> of the DRange returned
RangeDistanceSqPoint(b, point) ==
  << pow_root(SumSeq([d \in Axes(b) |->
        pow(RangeDistancePointAxis(b[d], point[d])[1], t_pow)])),
     pow_root(SumSeq([d \in Axes(b) |->
        pow(RangeDistancePointAxis(b[d], point[d])[2], t_pow)])) >>

\* MinToMidSq(other), the body of the loop: the value of v
MinToMidAxis(r, o) ==
  LET v  == mid(o)
      v1 == r.lo - v
      v2 == v - r.hi
  IN  (v1 + fabs(v1)) + (v2 + fabs(v2))

\* MinToMidSq(other)
MinToMidSq(b, other) ==
  pow_root(SumSeq([d \in Axes(b) |->
             pow(MinToMidAxis(b[d], other[d]), t_pow)])) \div 4

\* MinimaxDistanceSq(other), the body of the loop: the value of v
MinimaxDistanceAxis(r, o) ==
  LET v1 == o.hi - r.hi
      v2 == r.lo - o.lo
      v  == max(v1, v2)
  IN  v + fabs(v)

\* MinimaxDistanceSq(other)
MinimaxDistanceSq(b, other) ==
  pow_root(SumSeq([d \in Axes(b) |->
             pow(MinimaxDistanceAxis(b[d], other[d]), t_pow)])) \div 4

\* MidDistanceSq(other)
MidDistanceSq(b, other) ==
  pow_root(SumSeq([d \in Axes(b) |->
             pow(fabs(b[d].hi + b[d].lo - other[d].hi - other[d].lo), t_pow)])) \div 4

--------------------------------------------------------------------------
(* Calls.  The bound is used by one caller at a time: an operation starts  *)
(* when no call is in progress, records its arguments and what it returns, *)
(* and the caller then resumes (Return).                                   *)

NoCall ==
  [op |-> "none", point |-> <<>>, other |-> <<>>, other2 |-> <<>>,
   size |-> <<>>, axis |-> 0]

PointCall(name, p) == [NoCall EXCEPT !.op = name, !.point = p]
BoundCall(name, o) == [NoCall EXCEPT !.op = name, !.other = o]

\* a const method returns r
Returns(c, r) ==
  /\ pc' = "returned" /\ call' = c /\ ret' = r
  /\ UNCHANGED <<dim_, bounds_, box_size__>>

\* a mutator returns, leaving the bound b
Mutates(c, b) ==
  /\ pc' = "returned" /\ call' = c /\ ret' = <<>>
  /\ bounds_' = b
  /\ UNCHANGED <<dim_, box_size__>>

\* DEBUG_SAME_SIZE / DEBUG_ASSERT failing in a debug build: the program stops
Aborts(c) ==
  /\ pc' = "aborted" /\ call' = c /\ ret' = <<>>
  /\ UNCHANGED <<dim_, bounds_, box_size__>>

\* A read past the end of a vector or of an array of ranges is undefined:
\* it yields some value.
GarbageCoords == {G(0), G(3)}
GarbageRanges == {[lo |-> a, hi |-> b] : a \in GarbageCoords, b \in GarbageCoords}

\* what a loop over n axes reads from the vector p
ReadPoint(p, n) ==
  {p \o g : g \in [1..(n - Len(p)) -> GarbageCoords]}

\* what a loop over n axes reads from the array of ranges o
ReadBounds(o, n) ==
  {o \o g : g \in [1..(n - Len(o)) -> GarbageRanges]}

\* the distance queries are for a bound that holds something on every axis
\* (their result on an empty bound is unspecified) ...
NonEmpty == \A i \in 1..dim_ : ~IsEmptyRange(bounds_[i])
\* ... and those that fold need a period for every axis
HasPeriod == Len(box_size__) >= dim_

\* a / box_size__[d] with box_size__[d] = 0 is undefined: the query that
\* folds then returns some value
DividesByZero == \E d \in 1..dim_ : box_size__[d] = 0
UndefinedDistances == {Sq(0), Sq(1)}
ReturnsFolded(c, r) ==
  IF DividesByZero THEN \E g \in UndefinedDistances : Returns(c, <<g>>)
                   ELSE Returns(c, <<r>>)

Bit(b) == IF b THEN <<1>> ELSE <<0>>

\* the caller takes the result
Return ==
  /\ pc = "returned"
  /\ pc' = "idle" /\ call' = NoCall /\ ret' = <<>>
  /\ UNCHANGED <<dim_, bounds_, box_size__>>

\* bool Contains(const vec& point)
ContainsOp(P) ==
  /\ pc = "idle"
  /\ \E p \in P : \E b \in ReadBounds(bounds_, Len(p)) :
       Returns(PointCall("Contains", p), Bit(Contains(b, p)))

\* void CalculateMidpoint(vec& centroid)
CalculateMidpointOp ==
  /\ pc = "idle" /\ NonEmpty
  /\ Returns([NoCall EXCEPT !.op = "CalculateMidpoint"], CalculateMidpoint(bounds_))

\* double CalculateMaxDistanceSq()
CalculateMaxDistanceSqOp ==
  /\ pc = "idle" /\ NonEmpty
  /\ Returns([NoCall EXCEPT !.op = "CalculateMaxDistanceSq"],
             <<CalculateMaxDistanceSq(bounds_)>>)

\* double MinDistanceSq(const vec& point)
MinDistanceSqPointOp(P) ==
  /\ pc = "idle" /\ NonEmpty /\ HasPeriod
  /\ \E p \in P : \E q \in ReadPoint(p, dim_) :
       ReturnsFolded(PointCall("MinDistanceSqPoint", p),
                     MinDistanceSqPoint(bounds_, box_size__, q))

\* double MaxDistanceSq(const vec& point)
MaxDistanceSqPointOp(P) ==
  /\ pc = "idle" /\ NonEmpty /\ HasPeriod
  /\ \E p \in P : \E q \in ReadPoint(p, dim_) :
       ReturnsFolded(PointCall("MaxDistanceSqPoint", p),
                     MaxDistanceSqPoint(bounds_, box_size__, q))

\* DRange RangeDistanceSq(const vec& point)
RangeDistanceSqPointOp(P) ==
  /\ pc = "idle" /\ NonEmpty
  /\ \E p \in P :
       \/ Len(p) # dim_ /\ Aborts(PointCall("RangeDistanceSqPoint", p))
       \/ \E q \in ReadPoint(p, dim_) :
            Returns(PointCall("RangeDistanceSqPoint", p),
                    RangeDistanceSqPoint(bounds_, q))

\* double MinDistanceSq(const DHrectBound& other)
MinDistanceSqBoundOp(O) ==
  /\ pc = "idle" /\ NonEmpty /\ HasPeriod
  /\ \E o \in O :
       \/ dim_ # Len(o) /\ Aborts(BoundCall("MinDistanceSqBound", o))
       \/ \E q \in ReadBounds(o, dim_) :
            Returns(BoundCall("MinDistanceSqBound", o),
                    <<MinDistanceSqBound(bounds_, box_size__, q)>>)

\* double MaxDistanceSq(const DHrectBound& other)
MaxDistanceSqBoundOp(O) ==
  /\ pc = "idle" /\ NonEmpty /\ HasPeriod
  /\ \E o \in O :
       \/ dim_ # Len(o) /\ Aborts(BoundCall("MaxDistanceSqBound", o))
       \/ \E q \in ReadBounds(o, dim_) :
            ReturnsFolded(BoundCall("MaxDistanceSqBound", o),
                          MaxDistanceSqBound(bounds_, box_size__, q))

\* DRange RangeDistanceSq(const DHrectBound& other)
RangeDistanceSqBoundOp(O) ==
  /\ pc = "idle" /\ NonEmpty
  /\ \E o \in O :
       \/ dim_ # Len(o) /\ Aborts(BoundCall("RangeDistanceSqBound", o))
       \/ \E q \in ReadBounds(o, dim_) :
            Returns(BoundCall("RangeDistanceSqBound", o),
                    RangeDistanceSqBound(bounds_, q))

\* double MinToMidSq(const DHrectBound& other)
MinToMidSqOp(O) ==
  /\ pc = "idle" /\ NonEmpty
  /\ \E o \in O :
       \/ dim_ # Len(o) /\ Aborts(BoundCall("MinToMidSq", o))
       \/ \E q \in ReadBounds(o, dim_) :
            Returns(BoundCall("MinToMidSq", o), <<MinToMidSq(bounds_, q)>>)

\* double MinimaxDistanceSq(const DHrectBound& other)
MinimaxDistanceSqOp(O) ==
  /\ pc = "idle" /\ NonEmpty
  /\ \E o \in O :
       \/ dim_ # Len(o) /\ Aborts(BoundCall("MinimaxDistanceSq", o))
       \/ \E q \in ReadBounds(o, dim_) :
            Returns(BoundCall("MinimaxDistanceSq", o),
                    <<MinimaxDistanceSq(bounds_, q)>>)

\* double MidDistanceSq(const DHrectBound& other)
MidDistanceSqOp(O) ==
  /\ pc = "idle" /\ NonEmpty
  /\ \E o \in O :
       \/ dim_ # Len(o) /\ Aborts(BoundCall("MidDistanceSq", o))
       \/ \E q \in ReadBounds(o, dim_) :
            Returns(BoundCall("MidDistanceSq", o), <<MidDistanceSq(bounds_, q)>>)

\* double MaxDelta(const DHrectBound& other, double box_width, int dim):
\* dim is an axis of both bounds, box_width one of the widths W[dim]
MaxDeltaOp(O, W) ==
  /\ pc = "idle" /\ NonEmpty
  /\ \E o \in O : \E a \in 1..min(dim_, Len(o)) : \E w \in W[a] :
       Returns([NoCall EXCEPT !.op = "MaxDelta", !.other = o,
                              !.size = <<w>>, !.axis = a],
               <<MaxDelta(bounds_, o, w, a)>>)

\* double MinDelta(const DHrectBound& other, double box_width, int dim)
MinDeltaOp(O, W) ==
  /\ pc = "idle" /\ NonEmpty
  /\ \E o \in O : \E a \in 1..min(dim_, Len(o)) : \E w \in W[a] :
       Returns([NoCall EXCEPT !.op = "MinDelta", !.other = o,
                              !.size = <<w>>, !.axis = a],
               <<MinDelta(bounds_, o, w, a)>>)

--------------------------------------------------------------------------
(* The mutators *)

\* Reset(): every axis the empty set
ResetBounds(n) == [i \in 1..n |-> EmptyRange]

\* operator|=(const vec& vector)
IncludePoint(b, vector) ==
  [i \in Axes(b) |-> RangeIncludePoint(b[i], vector[i])]

\* operator|=(const DHrectBound& other)
IncludeBound(b, other) ==
  [i \in Axes(b) |-> RangeIncludeRange(b[i], other[i])]

\* Add(const vec& other, const vec& size), the body of the second loop
AddPointAxis(r, p, size) ==
  LET ah == Fold(r.hi - p, size)
      al == Fold(r.lo - p, size)
  IN  IF ah < al
      THEN IF size - ah < al THEN [r EXCEPT !.hi = p]
                             ELSE [r EXCEPT !.lo = p]
      ELSE r

\* Add(const vec& other, const vec& size)
AddPoint(b, other, size) ==
  LET b1 == IF b[1].hi < 0 THEN IncludePoint(b, other) ELSE b
  IN  [i \in Axes(b) |-> AddPointAxis(b1[i], other[i], size[i])]

\* Add(const DHrectBound& other, const vec& size), the body of the second loop
AddBoundAxis(r, o, size) ==
  LET al == r.lo
      ah == Fold(r.hi - al, size)
      bh == Fold(o.hi - al, size)
      bl == Fold(o.lo - al, size)
      r1 == IF \/ (bh > ah /\ (bh < bl \/ ah > bl))
               \/ (bh >= bl /\ bl > ah /\ bh < ah - bl + size)
            THEN [r EXCEPT !.hi = o.hi] ELSE r
      r2 == IF bl > ah /\ (bl > bh \/ bh >= ah - bl + size)
            THEN [r1 EXCEPT !.lo = o.lo] ELSE r1
  IN  IF ah > bl /\ bl > bh THEN [lo |-> 0, hi |-> size] ELSE r2

\* Add(const DHrectBound& other, const vec& size)
AddBound(b, other, size) ==
  LET b1 == IF b[1].hi < 0 THEN IncludeBound(b, other) ELSE b
  IN  [i \in Axes(b) |-> AddBoundAxis(b1[i], other[i], size[i])]

\* AverageBoxesInit(box1, box2), the loop over the dim_ = box1.dim() axes
AverageBoxes(box1, box2) ==
  [i \in Axes(box1) |-> RangeAverage(box1[i], box2[i])]

\* the averages stay whole numbers (even on the grid)
WholeAverage(box1, box2) ==
  \A i \in 1..min(Len(box1), Len(box2)) :
     (box1[i].lo + box2[i].lo) % 4 = 0 /\ (box1[i].hi + box2[i].hi) % 4 = 0

\* void Reset()
ResetOp ==
  /\ pc = "idle"
  /\ Mutates([NoCall EXCEPT !.op = "Reset"], ResetBounds(dim_))

\* void SetSize(index_t dim)
SetSizeOp ==
  /\ pc = "idle"
  /\ \E n \in Dims :
       /\ pc' = "returned" /\ call' = [NoCall EXCEPT !.op = "SetSize", !.axis = n]
       /\ ret' = <<>>
       /\ dim_' = n /\ bounds_' = ResetBounds(n)
       /\ UNCHANGED box_size__

\* void SetBoxSize(vec& box)
SetBoxSizeOp(S) ==
  /\ pc = "idle"
  /\ \E box \in S :
       /\ pc' = "returned" /\ call' = [NoCall EXCEPT !.op = "SetBoxSize", !.size = box]
       /\ ret' = <<>>
       /\ box_size__' = box
       /\ UNCHANGED <<dim_, bounds_>>

\* operator|=(const vec& vector)
IncludePointOp(P) ==
  /\ pc = "idle"
  /\ \E p \in P :
       \/ Len(p) # dim_ /\ Aborts(PointCall("IncludePoint", p))
       \/ \E q \in ReadPoint(p, dim_) :
            Mutates(PointCall("IncludePoint", p), IncludePoint(bounds_, q))

\* operator|=(const DHrectBound& other)
IncludeBoundOp(O) ==
  /\ pc = "idle"
  /\ \E o \in O :
       \/ Len(o) # dim_ /\ Aborts(BoundCall("IncludeBound", o))
       \/ \E q \in ReadBounds(o, dim_) :
            Mutates(BoundCall("IncludeBound", o), IncludeBound(bounds_, q))

\* Add(const vec& other, const vec& size): size has a width for every axis
AddPointOp(P, S) ==
  /\ pc = "idle"
  /\ \E p \in P, size \in {s \in S : Len(s) = dim_} :
       LET c == [NoCall EXCEPT !.op = "AddPoint", !.point = p, !.size = size]
       IN  \/ Len(p) # dim_ /\ Aborts(c)
           \/ \E q \in ReadPoint(p, dim_) :
                Mutates(c, AddPoint(bounds_, q, size))

\* Add(const DHrectBound& other, const vec& size)
AddBoundOp(O, S) ==
  /\ pc = "idle"
  /\ \E o \in O, size \in {s \in S : Len(s) = dim_} :
       \E q \in ReadBounds(o, dim_) :
         Mutates([NoCall EXCEPT !.op = "AddBound", !.other = o, !.size = size],
                 AddBound(bounds_, q, size))

\* AverageBoxesInit(const DHrectBound& box1, const DHrectBound& box2):
\* dim_ is assigned before the assertion on box2
AverageBoxesInitOp(O) ==
  /\ pc = "idle"
  /\ \E box1 \in O, box2 \in O :
       LET c == [NoCall EXCEPT !.op = "AverageBoxesInit",
                               !.other = box1, !.other2 = box2]
       IN  /\ WholeAverage(box1, box2)
           /\ \/ /\ Len(box1) # Len(box2)
                 /\ pc' = "aborted" /\ call' = c /\ ret' = <<>>
                 /\ dim_' = Len(box1)
                 /\ UNCHANGED <<bounds_, box_size__>>
              \/ \E q \in ReadBounds(box2, Len(box1)) :
                   /\ pc' = "returned" /\ call' = c /\ ret' = <<>>
                   /\ dim_' = Len(box1)
                   /\ bounds_' = AverageBoxes(box1, q)
                   /\ UNCHANGED box_size__

--------------------------------------------------------------------------
(* Inputs of the queries *)

Ranges(C) == {r \in [lo : C, hi : C] : r.lo <= r.hi}

\* the 2-D scenario of the specification: period 10, A = [1,3], B = [7,9]
ScenarioPeriod == G(10)
ScenarioA == [lo |-> G(1), hi |-> G(3)]
ScenarioB == [lo |-> G(7), hi |-> G(9)]

Coords == {G(x) : x \in 0..MaxCoord}
Periods == {G(x) : x \in 1..MaxPeriod}

\* first axis: every range over Coords and the scenario's; further axes:
\* the scenario's
AxisRanges(d) ==
  IF d = 1 THEN Ranges(Coords) \cup {ScenarioA, ScenarioB}
           ELSE {ScenarioA, ScenarioB}
AxisPeriods(d) ==
  IF d = 1 THEN Periods \cup {ScenarioPeriod} ELSE {ScenarioPeriod}
\* query points: every half unit around Coords on the first axis; inside A,
\* between A and B, and inside B
AxisPoints(d) ==
  IF d = 1 THEN (-1 .. (G(MaxCoord) + 1)) \cup {G(5), G(8)}
           ELSE {G(2), G(5), G(8)}

\* the sequences of length n with s[d] \in F(d)
RECURSIVE Vectors(_, _)
Vectors(F(_), n) ==
  IF n = 0 THEN {<<>>}
  ELSE {Append(s, x) : s \in Vectors(F, n - 1), x \in F(n)}

QueryBounds(n) == Vectors(AxisRanges, n)
QueryBoxes(n)  == Vectors(AxisPeriods, n)
QueryPoints(n) == Vectors(AxisPoints, n)
\* MaxDelta and MinDelta are given the period of the axis they look at
QueryWidths == [a \in 1..dim_ |-> {box_size__[a]}]

--------------------------------------------------------------------------
(* The queries on their own: any non-empty bound with its periods, then    *)
(* one query with an argument of the bound's dimension.                    *)

InitQuery ==
  /\ dim_ \in Dims
  /\ bounds_ \in QueryBounds(dim_)
  /\ box_size__ \in QueryBoxes(dim_)
  /\ pc = "idle" /\ call = NoCall /\ ret = <<>>

NextQuery ==
  \/ ContainsOp(QueryPoints(dim_))
  \/ CalculateMidpointOp
  \/ CalculateMaxDistanceSqOp
  \/ MinDistanceSqPointOp(QueryPoints(dim_))
  \/ MaxDistanceSqPointOp(QueryPoints(dim_))
  \/ RangeDistanceSqPointOp(QueryPoints(dim_))
  \/ MinDistanceSqBoundOp(QueryBounds(dim_))
  \/ MaxDistanceSqBoundOp(QueryBounds(dim_))
  \/ RangeDistanceSqBoundOp(QueryBounds(dim_))
  \/ MinToMidSqOp(QueryBounds(dim_))
  \/ MinimaxDistanceSqOp(QueryBounds(dim_))
  \/ MidDistanceSqOp(QueryBounds(dim_))
  \/ MaxDeltaOp(QueryBounds(dim_), QueryWidths)
  \/ MinDeltaOp(QueryBounds(dim_), QueryWidths)
  \/ Return

SpecQuery == InitQuery /\ [][NextQuery]_vars

--------------------------------------------------------------------------
(* Properties of the queries *)

Returned(name) == pc = "returned" /\ call.op = name

\* the argument has the dimension of the bound
SameSizePoint == Len(call.point) = dim_
SameSizeBound == Len(call.other) = dim_

\* C1: a point that Contains accepts (the bound's own midpoint among them)
\* is at MinDistanceSq 0 from the bound.
C1_ContainedPointAtDistanceZero ==
  (Returned("MinDistanceSqPoint") /\ SameSizePoint
     /\ Contains(bounds_, call.point))
    => ret = <<0>>

\* C2: MinDistanceSq(p) <= MaxDistanceSq(p) for every point p.
C2_MinAtMostMax ==
  (Returned("MinDistanceSqPoint") /\ SameSizePoint)
    => ret[1] <= MaxDistanceSqPoint(bounds_, box_size__, call.point)

Shifts == [1..dim_ -> (-MaxShift)..MaxShift]
Shifted(p, k) == [d \in 1..dim_ |-> p[d] + k[d] * box_size__[d]]

\* C3: periodicity: MinDistanceSq(p) = MinDistanceSq(p + k*T) for every
\* integer vector k (here -MaxShift..MaxShift on each axis).
C3_MinDistancePeriodic ==
  (Returned("MinDistanceSqPoint") /\ SameSizePoint)
    => \A k \in Shifts :
         MinDistanceSqPoint(bounds_, box_size__, Shifted(call.point, k)) = ret[1]

\* C3 happens: a query on two axes that returns a distance other than 0.
C3_Witness ==
  Returned("MinDistanceSqPoint") /\ dim_ = 2 /\ ret[1] > 0
    /\ \E k \in Shifts : Shifted(call.point, k) # call.point

\* the gap between two ranges of one axis on a circle of circumference box:
\* 0 when they overlap, otherwise the smaller of the direct gap and the gap
\* through the wrap boundary
PeriodicGap(r, o, box) ==
  IF o.lo <= r.hi /\ r.lo <= o.hi THEN 0
  ELSE IF o.lo > r.hi THEN min(o.lo - r.hi, r.lo + box - o.hi)
  ELSE min(r.lo - o.hi, o.lo + box - r.hi)

PositiveWidth(b) == \A d \in 1..Len(b) : b[d].hi > b[d].lo
InsidePeriod(b) ==
  \A d \in 1..Len(b) : 0 <= b[d].lo /\ b[d].hi < box_size__[d]

IsScenario ==
  /\ bounds_ = <<ScenarioA, ScenarioA>>
  /\ call.other = <<ScenarioB, ScenarioB>>
  /\ box_size__ = <<ScenarioPeriod, ScenarioPeriod>>

\* C4: MinDistanceSq(other) folds: between bounds of positive width inside
\* [0, period) each axis contributes the periodic gap; in the 2-D scenario
\* the result is 8, less than the non-periodic distance.
C4_MinDistanceBoundFolds ==
  (Returned("MinDistanceSqBound") /\ SameSizeBound
     /\ PositiveWidth(bounds_) /\ PositiveWidth(call.other)
     /\ InsidePeriod(bounds_) /\ InsidePeriod(call.other))
    => /\ ret[1] = SumSeq([d \in 1..dim_ |->
                     pow(PeriodicGap(bounds_[d], call.other[d], box_size__[d]), 2)])
       /\ ( IsScenario =>
              ( /\ ret[1] = Sq(8)
                /\ ret[1] < RangeDistanceSqBound(bounds_, call.other)[1] ) )

\* C4 happens: the scenario has been queried.
C4_Witness ==
  Returned("MinDistanceSqBound") /\ IsScenario

\* C5: RangeDistanceSq(B) = (MinDistanceSq(B), MaxDistanceSq(B)).
C5_RangeIsMinAndMax ==
  (Returned("RangeDistanceSqBound") /\ SameSizeBound /\ HasPeriod)
    => ret = << MinDistanceSqBound(bounds_, box_size__, call.other),
                MaxDistanceSqBound(bounds_, box_size__, call.other) >>

\* C6: the range RangeDistanceSq returns has lo <= hi, for a point (inside
\* or outside the bound) and for a bound.
C6_RangeOrdered ==
  ( \/ Returned("RangeDistanceSqPoint") /\ SameSizePoint
    \/ Returned("RangeDistanceSqBound") /\ SameSizeBound )
    => ret[1] <= ret[2]

HalfPeriodSq == SumSeq([d \in 1..dim_ |-> pow(Half(box_size__[d]), 2)])

\* C7: every per-axis term of MaxDistanceSq (point or bound) lies in
\* [0, period/2], and the result is at most the sum of (period/2)^2.
C7_MaxDistanceClamped ==
  /\ (Returned("MaxDistanceSqPoint") /\ SameSizePoint)
       => /\ \A d \in 1..dim_ :
               LET v == MaxDistancePointAxis(bounds_[d], box_size__[d], call.point[d])
               IN  0 <= v /\ v <= Half(box_size__[d])
          /\ ret[1] <= HalfPeriodSq
  /\ (Returned("MaxDistanceSqBound") /\ SameSizeBound)
       => /\ \A d \in 1..dim_ :
               LET v == MaxDistanceBoundAxis(bounds_[d], call.other[d], box_size__[d])
               IN  0 <= v /\ v <= Half(box_size__[d])
          /\ ret[1] <= HalfPeriodSq

\* C7 happens: a point query on two axes where the far edge is more than
\* half a period away on one axis, so that the clamp decides the term.
C7_Witness ==
  /\ Returned("MaxDistanceSqPoint") /\ dim_ = 2
  /\ \E d \in 1..dim_ :
       /\ Fold(bounds_[d].hi - call.point[d], box_size__[d]) > Half(box_size__[d])
       /\ MaxDistancePointAxis(bounds_[d], box_size__[d], call.point[d])
            = Half(box_size__[d])

\* two ranges inside [0, period) share a coordinate
OverlapsAxis(r, o) == o.lo <= r.hi /\ r.lo <= o.hi

\* C14: between bounds inside [0, period), of zero width on some axis or
\* not, MinDistanceSq(other) is 0 only if the ranges overlap on every axis.
C14_ZeroDistanceOnlyOnOverlap ==
  (Returned("MinDistanceSqBound") /\ SameSizeBound
     /\ InsidePeriod(bounds_) /\ InsidePeriod(call.other)
     /\ ret[1] = 0)
    => \A d \in 1..dim_ : OverlapsAxis(bounds_[d], call.other[d])

\* C12: MinToMidSq(other) returns what MinDistanceSq(point) returns for the
\* midpoint of other that CalculateMidpoint computes.
C12_MinToMidIsMinDistanceToMidpoint ==
  (Returned("MinToMidSq") /\ SameSizeBound)
    => ret[1] = MinDistanceSqPoint(bounds_, box_size__,
                                   CalculateMidpoint(call.other))

\* C9: MaxDelta and MinDelta return at most box_width/2 in magnitude.
C9_DeltaWithinHalfPeriod ==
  (Returned("MaxDelta") \/ Returned("MinDelta"))
    => 2 * fabs(ret[1]) <= call.size[1]

--------------------------------------------------------------------------
(* The bound in use: constructed empty with a dimension, then any sequence *)
(* of operations.  The arguments are whole-number points and bounds around *)
(* the 1-D example of the specification (period 10, bound [1,2], point 9), *)
(* of every dimension of the model.                                        *)

StepCoords(d) == IF d = 1 THEN {G(1), G(2), G(9)} ELSE {G(1), G(9)}
StepRanges(d) == Ranges(StepCoords(d))
StepPeriods(d) == IF d = 1 THEN {G(4), G(10)} ELSE {G(10)}

StepPoints == UNION {Vectors(StepCoords, n) : n \in Dims}
StepBounds == UNION {Vectors(StepRanges, n) : n \in Dims}
StepBoxes  == UNION {Vectors(StepPeriods, n) : n \in Dims}
StepWidths == [a \in Dims |-> StepPeriods(1)]
\* SetBoxSize is also given vectors with a zero or a negative component
NonPositiveBoxes == {<<G(0)>>, <<G(-4)>>, <<G(10), G(0)>>}

\* DHrectPeriodicBound(index_t dimension); box_size__ is not yet set
Init ==
  /\ dim_ \in Dims
  /\ bounds_ = ResetBounds(dim_)
  /\ box_size__ = <<>>
  /\ pc = "idle" /\ call = NoCall /\ ret = <<>>

Next ==
  \/ ResetOp
  \/ SetSizeOp
  \/ SetBoxSizeOp(StepBoxes \cup NonPositiveBoxes)
  \/ IncludePointOp(StepPoints)
  \/ IncludeBoundOp(StepBounds)
  \/ AddPointOp(StepPoints, StepBoxes)
  \/ AddBoundOp(StepBounds, StepBoxes)
  \/ AverageBoxesInitOp(StepBounds)
  \/ ContainsOp(StepPoints)
  \/ CalculateMidpointOp
  \/ CalculateMaxDistanceSqOp
  \/ MinDistanceSqPointOp(StepPoints)
  \/ MaxDistanceSqPointOp(StepPoints)
  \/ RangeDistanceSqPointOp(StepPoints)
  \/ MinDistanceSqBoundOp(StepBounds)
  \/ MaxDistanceSqBoundOp(StepBounds)
  \/ RangeDistanceSqBoundOp(StepBounds)
  \/ MinToMidSqOp(StepBounds)
  \/ MinimaxDistanceSqOp(StepBounds)
  \/ MidDistanceSqOp(StepBounds)
  \/ MaxDeltaOp(StepBounds, StepWidths)
  \/ MinDeltaOp(StepBounds, StepWidths)
  \/ Return

Spec == Init /\ [][Next]_vars

--------------------------------------------------------------------------
(* Properties of the bound in use *)

\* the point p lies outside the range r on a circle of circumference w
OutsideAxis(r, p, w) == width(r) < w /\ Fold(p - r.lo, w) > width(r)

\* r2 is r with one edge moved to p, the edge that adds the shorter span
ExtendedShorterWay(r, r2, p, w) ==
  LET up   == Fold(p - r.hi, w)
      down == Fold(r.lo - p, w)
  IN  \/ up <= down /\ r2 = [r EXCEPT !.hi = p]
      \/ down <= up /\ r2 = [r EXCEPT !.lo = p]

\* C8: Add(point, period) on a non-empty bound and a point outside it moves,
\* on each axis where the point is outside, the edge that adds the shorter
\* span; with period 10, [1,2] including 9 becomes lo = 9, hi = 2.
C8_AddPointExtendsShorterWay ==
  [][ ( /\ pc = "idle" /\ pc' = "returned" /\ call'.op = "AddPoint"
        /\ Len(call'.point) = dim_ /\ NonEmpty
        /\ ~Contains(bounds_, call'.point) )
      => /\ \A i \in 1..dim_ :
              OutsideAxis(bounds_[i], call'.point[i], call'.size[i])
                => ExtendedShorterWay(bounds_[i], bounds_'[i],
                                      call'.point[i], call'.size[i])
         /\ ( /\ bounds_ = <<[lo |-> G(1), hi |-> G(2)]>>
              /\ call'.point = <<G(9)>> /\ call'.size = <<G(10)>> )
              => bounds_' = <<[lo |-> G(9), hi |-> G(2)]>> ]_vars

PointOps == {"Contains", "MinDistanceSqPoint", "MaxDistanceSqPoint",
             "RangeDistanceSqPoint", "IncludePoint", "AddPoint"}
BoundOps == {"MinDistanceSqBound", "MaxDistanceSqBound", "RangeDistanceSqBound",
             "MinToMidSq", "MinimaxDistanceSq", "MidDistanceSq",
             "IncludeBound", "AddBound"}

\* C10: an operation given a point or a bound of another dimension fails:
\* it returns nothing and leaves the bound as it was.
C10_DimensionMismatchFails ==
  [][ ( /\ pc = "idle"
        /\ \/ call'.op \in PointOps /\ Len(call'.point) # dim_
           \/ call'.op \in BoundOps /\ Len(call'.other) # dim_
           \/ call'.op = "AverageBoxesInit"
                /\ Len(call'.other) # Len(call'.other2) )
      => /\ pc' = "aborted"
         /\ UNCHANGED <<dim_, bounds_>> ]_vars

\* the queries that read box_size__
PeriodicQueries == {"MinDistanceSqPoint", "MaxDistanceSqPoint",
                    "MinDistanceSqBound", "MaxDistanceSqBound"}

\* C11: SetBoxSize given a vector with a zero or negative component reports
\* an error and leaves box_size__ as it was, and no distance query runs with
\* a period that is not positive.
C11_NonPositivePeriodRejected ==
  [][ /\ ( /\ pc = "idle" /\ call'.op = "SetBoxSize"
           /\ \E d \in 1..Len(call'.size) : call'.size[d] <= 0 )
         => (pc' = "aborted" /\ box_size__' = box_size__)
      /\ (pc = "idle" /\ call'.op \in PeriodicQueries)
         => \A d \in 1..dim_ : box_size__[d] > 0 ]_vars

--------------------------------------------------------------------------
(* The bound grown in periodic coordinates only: a fresh bound, then any   *)
(* sequence of Add(point, size) and Add(bound, size) with the one period   *)
(* of the box, and Reset to start again.  Every coordinate is in           *)
(* [0, period).                                                            *)

AddPeriod == G(10)
AddCoords(d) == IF d = 1 THEN {G(0), G(1), G(2), G(5), G(9)} ELSE {G(1), G(9)}
AddRanges(d) == Ranges(AddCoords(d))
AddPoints(n) == Vectors(AddCoords, n)
AddBounds(n) == Vectors(AddRanges, n)

InitAdd ==
  /\ dim_ \in Dims
  /\ bounds_ = ResetBounds(dim_)
  /\ box_size__ = [d \in 1..dim_ |-> AddPeriod]
  /\ pc = "idle" /\ call = NoCall /\ ret = <<>>

NextAdd ==
  \/ ResetOp
  \/ AddPointOp(AddPoints(dim_), {box_size__})
  \/ AddBoundOp(AddBounds(dim_), {box_size__})
  \/ Return

SpecAdd == InitAdd /\ [][NextAdd]_vars

\* x is covered by the range r on a circle of circumference w; r may wrap
\* (lo > hi), and the range of a fresh bound covers nothing
Covers(r, x, w) ==
  /\ r # EmptyRange
  /\ \/ r.hi - r.lo >= w
     \/ Fold(x - r.lo, w) <= Fold(r.hi - r.lo, w)

\* C13: an Add(point, size) or Add(bound, size) leaves a bound that covers,
\* on every axis and modulo the period, the point or the bound just added
\* and everything the bound covered before.
C13_AddCoversAndNeverShrinks ==
  [][ (pc = "idle" /\ pc' = "returned" /\ call'.op \in {"AddPoint", "AddBound"})
      => \A i \in 1..dim_ :
           LET w == call'.size[i]
           IN  /\ call'.op = "AddPoint"
                    => Covers(bounds_'[i], call'.point[i], w)
               /\ call'.op = "AddBound"
                    => \A x \in call'.other[i].lo .. call'.other[i].hi :
                         Covers(bounds_'[i], x, w)
               /\ \A x \in 0 .. (w - 1) :
                    Covers(bounds_[i], x, w) => Covers(bounds_'[i], x, w) ]_vars

==========================================================================
